---- MODULE Spec2Model ----
(***************************************************************************)
(* WikiBench evaluation harness (wikibench.py): the scorer, the path       *)
(* validator, a single evaluation and the evaluation suite, as a state     *)
(* machine.  Page titles and URLs are strings of a small universe; the     *)
(* string conversions the code applies (str.lower, replace(' ', '_'),      *)
(* replace('_', ' ')) are tables over that universe.                       *)
(***************************************************************************)
EXTENDS Integers, Sequences, FiniteSets, TLC

VARIABLES
    web,          \* the live site: URL -> hrefs of the page's content links
    pc,           \* position of the running call
    call,         \* arguments of the running call (kind, mode, num_trials, agent)
    i,            \* run_evaluation_suite: loop index (trials started so far)
    results,      \* run_evaluation_suite: the list `results`
    result,       \* run_single_evaluation: the WikiBenchResult `result`
    full_path,    \* is_valid_wikipedia_path: its argument `path`
    hop,          \* is_valid_wikipedia_path: loop index i (0-based)
    fetchLog,     \* link fetches of the current trial, in order, with their answers
    agentCalls,   \* calls of agent.solve_wikibench in the current trial
    randomCalls,  \* calls of navigator.get_random_page in the current trial
    validatorCalls, \* calls of navigator.is_valid_wikipedia_path in the current trial
    agentOutcome, \* how the last solve_wikibench call of the current trial ended
    sleeps,       \* time.sleep(1) calls of the suite so far
    raised,       \* message of the exception that left the call, or NoError
    sres,         \* scorer harness: the two results handed to calculate_score
    sout,         \* scorer harness: the scores returned for each, in call order
    reportIn,     \* report harness: the results handed to generate_report
    report        \* report harness: what generate_report returned, or NoReport

vars == <<web, pc, call, i, results, result, full_path, hop, fetchLog,
          agentCalls, randomCalls, validatorCalls, agentOutcome, sleeps, raised,
          sres, sout, reportIn, report>>

evalVars == <<web, pc, call, i, results, result, full_path, hop, fetchLog,
              agentCalls, randomCalls, validatorCalls, agentOutcome, sleeps,
              raised>>

scorerVars == <<sres, sout>>

reportVars == <<reportIn, report>>

-----------------------------------------------------------------------------
(* Bounds of the model *)

MaxPathLen == 3        \* longest path an agent returns in a single evaluation
MaxTrials == 2         \* largest num_trials of a suite
MaxScorerLen == 3      \* longest path of a result handed to the scorer harness
MaxCreative == 49      \* largest creative_connections handed to the scorer harness
MaxScoreCalls == 2     \* calculate_score calls per result in the scorer harness
MaxReportLen == 3      \* most results handed to generate_report in the report harness

-----------------------------------------------------------------------------
(* Strings *)

NoneStr == "None"
NoError == "None"

TARGET_PAGE == "Kevin Bacon"
TARGET_URL == "wiki/Kevin_Bacon"

Titles == {"bradawl", "Woodworking", "Hand tool", "Kevin Bacon", "kevin bacon",
           "Six Degrees of Kevin Bacon"}

Urls == {"wiki/bradawl", "wiki/Woodworking", "wiki/Hand_tool",
         "wiki/Kevin_Bacon", "wiki/kevin_bacon",
         "wiki/Six_Degrees_of_Kevin_Bacon"}

\* str.lower()
Lower(s) ==
    CASE s = "bradawl" -> "bradawl"
      [] s = "Woodworking" -> "woodworking"
      [] s = "Hand tool" -> "hand tool"
      [] s = "Kevin Bacon" -> "kevin bacon"
      [] s = "kevin bacon" -> "kevin bacon"
      [] s = "Six Degrees of Kevin Bacon" -> "six degrees of kevin bacon"
      [] OTHER -> s

\* f"https://en.wikipedia.org/wiki/{title.replace(' ', '_')}"
UrlOfTitle(t) ==
    CASE t = "bradawl" -> "wiki/bradawl"
      [] t = "Woodworking" -> "wiki/Woodworking"
      [] t = "Hand tool" -> "wiki/Hand_tool"
      [] t = "Kevin Bacon" -> "wiki/Kevin_Bacon"
      [] t = "kevin bacon" -> "wiki/kevin_bacon"
      [] t = "Six Degrees of Kevin Bacon" -> "wiki/Six_Degrees_of_Kevin_Bacon"

\* url.split('/wiki/')[-1].replace('_', ' ')
TitleOfUrl(u) ==
    CASE u = "wiki/bradawl" -> "bradawl"
      [] u = "wiki/Woodworking" -> "Woodworking"
      [] u = "wiki/Hand_tool" -> "Hand tool"
      [] u = "wiki/Kevin_Bacon" -> "Kevin Bacon"
      [] u = "wiki/kevin_bacon" -> "kevin bacon"
      [] u = "wiki/Six_Degrees_of_Kevin_Bacon" -> "Six Degrees of Kevin Bacon"

-----------------------------------------------------------------------------
(* EvaluationMode *)

NO_TOOL_USE == "no_tool_use"
TOOL_USE == "tool_use"
EvaluationMode == {NO_TOOL_USE, TOOL_USE}

-----------------------------------------------------------------------------
(* WikiBenchResult *)

\* WikiBenchResult(start_page=..., start_url=...) with the dataclass defaults;
\* __post_init__ turns path=None into [].
WikiBenchResult(start_page, start_url) ==
    [start_page |-> start_page,
     start_url |-> start_url,
     target_page |-> TARGET_PAGE,
     target_url |-> TARGET_URL,
     path |-> <<>>,
     score |-> 0,
     success |-> FALSE,
     gave_up |-> FALSE,
     cheated |-> FALSE,
     invalid_path |-> FALSE,
     creative_connections |-> 0,
     time_taken |-> 0,
     error_message |-> NoneStr]

NoResult == [none |-> TRUE]

\* How a call of solve_wikibench ended: not made yet, returned a value, raised.
NotCalled == [kind |-> "not called", isNone |-> FALSE, value |-> <<>>, msg |-> NoneStr]
Returned(ret) == [kind |-> "return", isNone |-> ret.isNone, value |-> ret.value, msg |-> NoneStr]
Raised(msg) == [kind |-> "raise", isNone |-> FALSE, value |-> <<>>, msg |-> msg]

-----------------------------------------------------------------------------
(* WikiBenchScorer *)

BASE_SCORE == 0
INVALID_PATH_PENALTY == 10
GAVE_UP_PENALTY == 15
CHEATING_PENALTY == 20
CREATIVE_CONNECTION_BONUS == -1

Max(a, b) == IF a >= b THEN a ELSE b

\* Mutant: the clamp to 0 is left out.
calculate_score_noclamp(r) ==
    LET s0 == BASE_SCORE + Len(r.path)
        s1 == IF r.invalid_path THEN s0 + INVALID_PATH_PENALTY ELSE s0
        s2 == IF r.gave_up THEN s1 + GAVE_UP_PENALTY ELSE s1
        s3 == IF r.cheated THEN s2 + CHEATING_PENALTY ELSE s2
    IN  s3 + r.creative_connections * CREATIVE_CONNECTION_BONUS

\* Mutant: the time the agent took leaks into the score.
calculate_score_timed(r) ==
    Max(0, calculate_score_noclamp(r) + r.time_taken)

calculate_score(r) ==
    LET s0 == BASE_SCORE + Len(r.path)
        s1 == IF r.invalid_path THEN s0 + INVALID_PATH_PENALTY ELSE s0
        s2 == IF r.gave_up THEN s1 + GAVE_UP_PENALTY ELSE s1
        s3 == IF r.cheated THEN s2 + CHEATING_PENALTY ELSE s2
        s4 == s3 + r.creative_connections * CREATIVE_CONNECTION_BONUS
    IN  Max(0, s4)

-----------------------------------------------------------------------------
(* The scorer on its own: two results are handed to calculate_score, each  *)
(* up to MaxScoreCalls times.                                              *)

Repeat(t, n) == [k \in 1..n |-> t]

\* The fields calculate_score is documented to depend on.
ScoreTuple(r) ==
    <<Len(r.path), r.invalid_path, r.gave_up, r.cheated, r.creative_connections>>

ScorerInputs ==
    {[WikiBenchResult("bradawl", "wiki/bradawl") EXCEPT
         !.path = Repeat("Woodworking", n),
         !.invalid_path = inv,
         !.gave_up = gu,
         !.cheated = ch,
         !.creative_connections = cc] :
       n \in 0..MaxScorerLen, inv \in BOOLEAN, gu \in BOOLEAN, ch \in BOOLEAN,
       cc \in 0..MaxCreative}

\* Results with the score tuple of r and other fields of their own.
ScorerTwins(r) ==
    {[r EXCEPT
         !.path = Repeat(t, Len(r.path)),
         !.start_page = TitleOfUrl(su),
         !.start_url = su,
         !.time_taken = tt,
         !.error_message = em] :
       t \in {"Woodworking", "Kevin Bacon"},
       su \in {"wiki/bradawl", "wiki/Hand_tool"},
       tt \in {0, 1},
       em \in {NoneStr, "boom"}}

IdleEval ==
    /\ web = [u \in Urls |-> {}]
    /\ pc = "idle"
    /\ call = [kind |-> "none"]
    /\ i = 0
    /\ results = <<>>
    /\ result = NoResult
    /\ full_path = <<>>
    /\ hop = 0
    /\ fetchLog = <<>>
    /\ agentCalls = 0
    /\ randomCalls = 0
    /\ validatorCalls = 0
    /\ agentOutcome = NotCalled
    /\ sleeps = 0
    /\ raised = NoError

NoReport == [kind |-> "none"]

IdleReport ==
    /\ reportIn = <<>>
    /\ report = NoReport

InitScorer ==
    /\ IdleEval
    /\ IdleReport
    /\ \E r \in ScorerInputs : \E q \in ScorerTwins(r) : sres = <<r, q>>
    /\ sout = <<<<>>, <<>>>>

\* score = WikiBenchScorer.calculate_score(result), on result k
ScoreCall(k) ==
    /\ Len(sout[k]) < MaxScoreCalls
    /\ sout' = [sout EXCEPT ![k] = Append(@, calculate_score(sres[k]))]
    /\ sres' = sres
    /\ UNCHANGED <<evalVars, reportVars>>

NextScorer == \E k \in 1..2 : ScoreCall(k)

SpecScorer == InitScorer /\ [][NextScorer]_vars

-----------------------------------------------------------------------------
(* WikiBenchEvaluator.generate_report, and the report on its own: a list   *)
(* of up to MaxReportLen results is handed to generate_report.             *)

\* A Python float that approximates the quotient num / den: exact tells
\* whether the double is that quotient or a neighbour of it.
Float(num, den, exact) == [num |-> num, den |-> den, exact |-> exact]

\* IEEE-754 double arithmetic of `s / t * 100` for 0 <= s <= t <= 8: the
\* result is the quotient 100 s / t except for these (s, t).
RateIsInexact(s, t) ==
    \/ t = 3 /\ s \in {1, 2}
    \/ t = 6 /\ s \in {1, 2, 4, 5}
    \/ t = 7 /\ s \in 1..6

\* successful_trials / total_trials * 100
SuccessRate(s, t) == Float(100 * s, t, ~RateIsInexact(s, t))

\* sum(xs) / len(xs): one correctly rounded division, exact when the reduced
\* denominator is a power of two (lengths up to 8).
Mean(sum, n) ==
    Float(sum, n, \E d \in {1, 2, 4, 8} : d <= n /\ (sum * d) % n = 0)

\* `x * t == v` for a float x and integers t, v, in double arithmetic: an
\* inexact rate of t = 7 trials rounds back to v, those of 3 and 6 do not.
FloatTimesEquals(x, t, v) ==
    /\ x.num * t = v * x.den
    /\ x.exact \/ x.den = 7

RECURSIVE SumSeq(_)
SumSeq(xs) == IF xs = <<>> THEN 0 ELSE Head(xs) + SumSeq(Tail(xs))

MinSeq(xs) == CHOOSE m \in {xs[k] : k \in DOMAIN xs} : \A k \in DOMAIN xs : m <= xs[k]
MaxSeq(xs) == CHOOSE m \in {xs[k] : k \in DOMAIN xs} : \A k \in DOMAIN xs : m >= xs[k]

\* sum(1 for r in results if flag(r))
CountIf(rs, flag) == Cardinality({k \in DOMAIN rs : rs[k][flag]})

HasPath(r) == r.path # <<>>

\* The entry of a result in report["results"]
ReportEntry(r) ==
    [start_page |-> r.start_page,
     path |-> r.path,
     score |-> r.score,
     success |-> r.success,
     gave_up |-> r.gave_up,
     cheated |-> r.cheated,
     invalid_path |-> r.invalid_path,
     time_taken |-> r.time_taken,
     error_message |-> r.error_message]

\* {} , what generate_report returns for no results
EmptyReport == [kind |-> "empty"]

\* The exception a division by len(results) = 0 raises.
ZeroDivisionError == [kind |-> "error", error |-> "ZeroDivisionError"]

ReportOf(rs, agent_name) ==
    LET total_trials == Len(rs)
        successful_trials == CountIf(rs, "success")
        scores == [k \in DOMAIN rs |-> rs[k].score]
        withPath == SelectSeq(rs, HasPath)
        path_lengths == [k \in DOMAIN withPath |-> Len(withPath[k].path)]
    IN  [kind |-> "report",
         agent_name |-> agent_name,
         total_trials |-> total_trials,
         successful_trials |-> successful_trials,
         success_rate |-> SuccessRate(successful_trials, total_trials),
         gave_up_count |-> CountIf(rs, "gave_up"),
         cheated_count |-> CountIf(rs, "cheated"),
         invalid_path_count |-> CountIf(rs, "invalid_path"),
         average_score |-> Mean(SumSeq(scores), Len(scores)),
         best_score |-> MinSeq(scores),
         worst_score |-> MaxSeq(scores),
         average_path_length |->
             IF path_lengths # <<>>
             THEN Mean(SumSeq(path_lengths), Len(path_lengths))
             ELSE Float(0, 1, TRUE),
         results |-> [k \in DOMAIN rs |-> ReportEntry(rs[k])]]

\* Mutant: the `if not results` guard is missing.
generate_report_noguard(rs, agent_name) ==
    IF Len(rs) = 0 THEN ZeroDivisionError ELSE ReportOf(rs, agent_name)

\* Mutant: best_score and worst_score are taken the wrong way round.
generate_report_swapped(rs, agent_name) ==
    IF rs = <<>>
    THEN EmptyReport
    ELSE [ReportOf(rs, agent_name) EXCEPT
             !.best_score = ReportOf(rs, agent_name).worst_score,
             !.worst_score = ReportOf(rs, agent_name).best_score]

generate_report(rs, agent_name) ==
    IF rs = <<>> THEN EmptyReport ELSE ReportOf(rs, agent_name)

\* Results of finished trials, as run_single_evaluation produces them.
ReportInputs ==
    LET base == WikiBenchResult("bradawl", "wiki/bradawl")
    IN  {[base EXCEPT !.path = <<"Woodworking", "Kevin Bacon">>, !.success = TRUE,
                      !.score = 2],
         [base EXCEPT !.gave_up = TRUE, !.score = 15],
         [base EXCEPT !.path = <<"Kevin Bacon">>, !.cheated = TRUE, !.score = 21],
         [base EXCEPT !.path = <<"Hand tool">>, !.invalid_path = TRUE, !.score = 11,
                      !.time_taken = 1],
         [base EXCEPT !.path = <<"Hand tool", "kevin bacon">>, !.invalid_path = TRUE,
                      !.success = TRUE, !.score = 12]}

AgentNames == {"CheatAgent"}

InitReport ==
    /\ IdleEval
    /\ sres = <<>>
    /\ sout = <<>>
    /\ reportIn \in UNION {[1..n -> ReportInputs] : n \in 0..MaxReportLen}
    /\ report = NoReport

\* report = evaluator.generate_report(results, agent_name)
GenerateReport(agent_name) ==
    /\ report = NoReport
    /\ report' = generate_report(reportIn, agent_name)
    /\ reportIn' = reportIn
    /\ UNCHANGED <<evalVars, scorerVars>>

NextReport == \E agent_name \in AgentNames : GenerateReport(agent_name)

SpecReport == InitReport /\ [][NextReport]_vars

-----------------------------------------------------------------------------
(* The environment: the site, the random page, the agent                   *)

\* Sites the run may face: hrefs of the content links of every page.
WebChain ==
    [u \in Urls |->
        CASE u = "wiki/bradawl" -> {"wiki/Woodworking"}
          [] u = "wiki/Woodworking" -> {"wiki/Hand_tool"}
          [] u = "wiki/Hand_tool" -> {"wiki/Kevin_Bacon"}
          [] OTHER -> {}]

WebMixed ==
    [u \in Urls |->
        CASE u = "wiki/bradawl" -> {"wiki/Woodworking", "wiki/kevin_bacon"}
          [] u = "wiki/Woodworking" -> {"wiki/Kevin_Bacon", "wiki/Hand_tool"}
          [] u = "wiki/Hand_tool" -> {"wiki/kevin_bacon"}
          [] u = "wiki/Kevin_Bacon" -> {"wiki/Kevin_Bacon"}
          [] u = "wiki/kevin_bacon" -> {"wiki/Six_Degrees_of_Kevin_Bacon"}
          [] OTHER -> {}]

WebDirect ==
    [u \in Urls |->
        CASE u = "wiki/bradawl" -> {"wiki/Kevin_Bacon"}
          [] u = "wiki/Woodworking" -> {"wiki/Kevin_Bacon", "wiki/Woodworking"}
          [] OTHER -> {}]

Webs == {WebChain, WebMixed, WebDirect}

\* Pages Special:Random may redirect to.
RandomUrls == {"wiki/bradawl", "wiki/Woodworking"}

\* Starting pages a caller of run_single_evaluation supplies (None: not supplied).
CallerStartPages == {NoneStr, "bradawl"}
CallerStartUrls == {NoneStr, "wiki/bradawl"}

\* Titles the agent under test puts into its paths.
PathTitles == {"Woodworking", "Hand tool", "Kevin Bacon", "kevin bacon"}

PathsUpTo(n) == UNION {[1..k -> PathTitles] : k \in 0..n}

\* What solve_wikibench returns: a list of titles or None.
ReturnList(p) == [isNone |-> FALSE, value |-> p]
ReturnNone == [isNone |-> TRUE, value |-> <<>>]

\* Returns of the agent in a single evaluation: every path up to MaxPathLen.
SingleReturns == {ReturnList(p) : p \in PathsUpTo(MaxPathLen)} \cup {ReturnNone}

\* Returns of the agent in the trials of a suite.
SuiteReturns ==
    {ReturnNone,
     ReturnList(<<>>),
     ReturnList(<<"Kevin Bacon">>),
     ReturnList(<<"kevin bacon">>),
     ReturnList(<<"Woodworking", "Kevin Bacon">>),
     ReturnList(<<"Woodworking", "Hand tool", "Kevin Bacon">>)}

\* The agents a single evaluation is called with: one that may return any
\* path or raise, and LLMChatAgent.
SCRIPTED == "scripted"
LLM_CHAT_AGENT == "LLMChatAgent"
Agents == {SCRIPTED, LLM_CHAT_AGENT}

\* Most lines of a model response.
MaxReplyLines == 2

\* Lines of a model response: titles, a bulleted title, commentary, the start
\* page, a blank line.
LLMLines == {"Woodworking", "- Kevin Bacon", "Here is the path:", "bradawl", ""}

\* A one-line response in arrow form, led by a commentary of eight words.
ARROW_LINE == "Here is the path I found for you: -> Woodworking -> Kevin Bacon"

\* Response texts, as their lines.
LLMTexts ==
    UNION {[1..k -> LLMLines] : k \in 0..MaxReplyLines} \cup {<<ARROW_LINE>>}

\* What the provider's API call does: it returns a text or raises.
LLMResponses ==
    {[ok |-> TRUE, text |-> t] : t \in LLMTexts} \cup {[ok |-> FALSE, text |-> <<>>]}

\* line.strip(), re.sub(r"^\s*[-*\d\.]+\s*", "", s), s.strip('"').strip("'")
CleanLine(line) ==
    CASE line = "- Kevin Bacon" -> "Kevin Bacon"
      [] OTHER -> line

\* s.lower().startswith(("here", "path", "the path"))
IsCommentary(s) == s \in {"Here is the path:", ARROW_LINE}

\* "->" in text or "→" in text
HasArrow(text) == \E k \in DOMAIN text : text[k] = ARROW_LINE

\* re.split(r"\s*(?:->|→)\s*", text), each piece stripped of blanks and quotes
SplitArrows(text) ==
    IF text = <<ARROW_LINE>>
    THEN <<"Here is the path I found for you:", "Woodworking", "Kevin Bacon">>
    ELSE text

\* len(p.split())
WordCount(p) ==
    CASE p = "Here is the path I found for you:" -> 8
      [] p = "Kevin Bacon" -> 2
      [] p = "Woodworking" -> 1
      [] OTHER -> 1

\* the most words of a piece the arrow fallback keeps
MAX_PIECE_WORDS == 7

\* the loop over the lines of the text: the cleaned lines that are not blank,
\* not commentary and not the start page
RECURSIVE LinesToPath(_, _)
LinesToPath(lines, start_page) ==
    IF lines = <<>> THEN <<>>
    ELSE LET s == CleanLine(lines[1])
             rest == LinesToPath(Tail(lines), start_page)
         IN  IF s = "" \/ IsCommentary(s) \/ Lower(s) = Lower(start_page)
             THEN rest
             ELSE <<s>> \o rest

\* the loop over the pieces of the arrow fallback
RECURSIVE PiecesToPath(_, _)
PiecesToPath(pieces, start_page) ==
    IF pieces = <<>> THEN <<>>
    ELSE LET p == pieces[1]
             rest == PiecesToPath(Tail(pieces), start_page)
         IN  IF p = "" \/ Lower(p) = Lower(start_page) \/ WordCount(p) > MAX_PIECE_WORDS
             THEN rest
             ELSE <<p>> \o rest

\* a path that does not end at the target is cut after the target's first
\* occurrence, or gets the target appended
EndAtTarget(path, target_page) ==
    IF path # <<>> /\ Lower(path[Len(path)]) # Lower(target_page)
    THEN IF \E k \in DOMAIN path : Lower(path[k]) = Lower(target_page)
         THEN LET first_idx == CHOOSE k \in DOMAIN path :
                      /\ Lower(path[k]) = Lower(target_page)
                      /\ \A j \in 1..(k - 1) : Lower(path[j]) # Lower(target_page)
              IN  SubSeq(path, 1, first_idx)
         ELSE Append(path, target_page)
    ELSE path

\* LLMChatAgent._extract_path(text, start_page), self.target_page the default
extract_path(text, start_page) ==
    LET path == EndAtTarget(LinesToPath(text, start_page), TARGET_PAGE)
    IN  IF path = <<>> /\ HasArrow(text)
        THEN LET arrow == PiecesToPath(SplitArrows(text), start_page)
             IN  IF arrow # <<>> /\ Lower(arrow[Len(arrow)]) # Lower(TARGET_PAGE)
                 THEN Append(arrow, TARGET_PAGE)
                 ELSE arrow
        ELSE path

\* LLMChatAgent.solve_wikibench(start_page, start_url, mode) when the API call
\* ends as resp: the parsed path in both modes, [] when the call raised.
LLMChatAgent_solve_wikibench(start_page, mode, resp) ==
    IF resp.ok THEN extract_path(resp.text, start_page) ELSE <<>>

\* The call in progress is a single evaluation of LLMChatAgent.
IsLLMTrial ==
    /\ pc = "solve"
    /\ call.kind = "single"
    /\ call.agent = LLM_CHAT_AGENT

LLMReturns ==
    {ReturnList(LLMChatAgent_solve_wikibench(result.start_page, call.mode, resp)) :
        resp \in LLMResponses}

\* WikipediaNavigator.get_page_links(url) when the fetch succeeds: the
\* (title, url) pairs of the page's links, the title taken from the href.
get_page_links(url) == {<<TitleOfUrl(h), h>> : h \in web[url]}

-----------------------------------------------------------------------------
(* example_agents.py: the agents that browse, in tool_use mode *)

RANDOM_AGENT == "RandomAgent"
GREEDY_ACTOR_AGENT == "GreedyActorAgent"
HEURISTIC_AGENT == "HeuristicAgent"
ExampleAgents == {RANDOM_AGENT, GREEDY_ACTOR_AGENT, HEURISTIC_AGENT}

\* max_steps of RandomAgent, GreedyActorAgent and HeuristicAgent
RANDOM_MAX_STEPS == 10
GREEDY_MAX_STEPS == 15
HEURISTIC_MAX_STEPS == 20

\* self.target_page in title: the target's title is a substring of the title
TargetIn(title) == title \in {"Kevin Bacon", "Six Degrees of Kevin Bacon"}

\* Some link of the page has the target's title inside its title.
SeesTarget(links) == \E l \in links : TargetIn(l[1])

\* RandomAgent.solve_wikibench, the tool_use loop from current_url with
\* steps iterations left, every fetch succeeding: the paths it can return.
RECURSIVE RandomAgent_walk(_, _)
RandomAgent_walk(current_url, steps) ==
    IF steps = 0 THEN {<<>>}
    ELSE LET links == get_page_links(current_url)
         IN  IF links = {} THEN {<<>>}
             ELSE IF SeesTarget(links) THEN {<<TARGET_PAGE>>}
             ELSE UNION {{<<l[1]>> \o p : p \in RandomAgent_walk(l[2], steps - 1)} :
                            l \in links}

\* GreedyActorAgent: the number of actor_keywords in the lower-cased title,
\* plus 2 for american / english / british / united states
GreedyScore(title) ==
    CASE title \in Titles -> 0
      [] OTHER -> 0

\* The links GreedyActorAgent may follow: the best-scored one if its score is
\* positive, else any of the first ten.
GreedyChoices(links) ==
    LET best == {l \in links : \A m \in links : GreedyScore(l[1]) >= GreedyScore(m[1])}
    IN  IF \E l \in best : GreedyScore(l[1]) > 0 THEN best ELSE links

\* GreedyActorAgent.solve_wikibench, the tool_use loop
RECURSIVE GreedyActorAgent_walk(_, _)
GreedyActorAgent_walk(current_url, steps) ==
    IF steps = 0 THEN {<<>>}
    ELSE LET links == get_page_links(current_url)
         IN  IF links = {} THEN {<<>>}
             ELSE IF SeesTarget(links) THEN {<<TARGET_PAGE>>}
             ELSE UNION {{<<l[1]>> \o p : p \in GreedyActorAgent_walk(l[2], steps - 1)} :
                            l \in GreedyChoices(links)}

\* HeuristicAgent._select_best_link: the score of a title at a step
HeuristicScore(title, step) ==
    CASE title \in {"kevin bacon", "Kevin Bacon", "Six Degrees of Kevin Bacon"}
            -> 70 + (IF step < 5 THEN 0 ELSE 5)
      [] OTHER -> 0

\* The links _select_best_link may return: one with the highest score (the
\* first such in page order, which the site decides).
HeuristicBest(links, step) ==
    {l \in links : \A m \in links : HeuristicScore(l[1], step) >= HeuristicScore(m[1], step)}

\* HeuristicAgent.solve_wikibench, the tool_use loop at iteration step with
\* self.visited_pages = visited
RECURSIVE HeuristicAgent_walk(_, _, _)
HeuristicAgent_walk(current_url, step, visited) ==
    IF step = HEURISTIC_MAX_STEPS THEN {<<>>}
    ELSE LET links == get_page_links(current_url)
             Follow(l) == {<<l[1]>> \o p :
                              p \in HeuristicAgent_walk(l[2], step + 1, visited \cup {l[1]})}
             unvisited == {l \in links : l[1] \notin visited}
         IN  IF links = {} THEN {<<>>}
             ELSE IF SeesTarget(links) THEN {<<TARGET_PAGE>>}
             ELSE UNION {IF best[1] \notin visited THEN Follow(best)
                         ELSE UNION {Follow(l) : l \in unvisited} :
                            best \in HeuristicBest(links, step)}

\* solve_wikibench(start_page, start_url, EvaluationMode.TOOL_USE) of an
\* example agent: the paths it can return.
ExampleAgent_solve_wikibench(agent, start_page, start_url) ==
    CASE agent = RANDOM_AGENT -> RandomAgent_walk(start_url, RANDOM_MAX_STEPS)
      [] agent = GREEDY_ACTOR_AGENT -> GreedyActorAgent_walk(start_url, GREEDY_MAX_STEPS)
      [] agent = HEURISTIC_AGENT -> HeuristicAgent_walk(start_url, 0, {start_page})

\* The call in progress is a single evaluation of one of these agents.
IsExampleTrial ==
    /\ pc = "solve"
    /\ call.kind = "single"
    /\ call.agent \in ExampleAgents

ExampleReturns ==
    {ReturnList(p) :
        p \in ExampleAgent_solve_wikibench(call.agent, result.start_page, result.start_url)}

AgentReturns ==
    IF IsLLMTrial THEN LLMReturns
    ELSE IF IsExampleTrial THEN ExampleReturns
    ELSE IF call.kind = "single" THEN SingleReturns ELSE SuiteReturns

\* Messages of the exceptions solve_wikibench raises.
AgentErrors ==
    IF IsLLMTrial \/ IsExampleTrial THEN {}
    ELSE {"Tool use mode not implemented for OpenAI agent"}

\* time.time() - start_time
TimeValues == {0, 1}


-----------------------------------------------------------------------------
(* Calls *)

Init ==
    /\ web \in Webs
    /\ pc = "idle"
    /\ call = [kind |-> "none"]
    /\ i = 0
    /\ results = <<>>
    /\ result = NoResult
    /\ full_path = <<>>
    /\ hop = 0
    /\ fetchLog = <<>>
    /\ agentCalls = 0
    /\ randomCalls = 0
    /\ validatorCalls = 0
    /\ agentOutcome = NotCalled
    /\ sleeps = 0
    /\ raised = NoError
    /\ sres = <<>>
    /\ sout = <<>>
    /\ IdleReport

\* evaluator.run_single_evaluation(agent, mode, start_page, start_url)
CallSingle(agent, mode, sp, su) ==
    /\ pc = "idle"
    /\ call' = [kind |-> "single", agent |-> agent, mode |-> mode, num_trials |-> 1,
                start_page |-> sp, start_url |-> su]
    /\ pc' = "enter"
    /\ UNCHANGED <<web, i, results, result, full_path, hop, fetchLog,
                   agentCalls, randomCalls, sleeps, raised, sres, sout,
                   validatorCalls, agentOutcome, reportIn, report>>

\* evaluator.run_evaluation_suite(agent, mode, num_trials): results = []
CallSuite(mode, n) ==
    /\ pc = "idle"
    /\ call' = [kind |-> "suite", mode |-> mode, num_trials |-> n,
                start_page |-> NoneStr, start_url |-> NoneStr]
    /\ results' = <<>>
    /\ i' = 0
    /\ pc' = "loop"
    /\ UNCHANGED <<web, result, full_path, hop, fetchLog,
                   agentCalls, randomCalls, sleeps, raised, sres, sout,
                   validatorCalls, agentOutcome, reportIn, report>>

\* for i in range(num_trials): run_single_evaluation(agent, mode); after the
\* last trial, return results.
SuiteLoop ==
    /\ pc = "loop"
    /\ IF i < call.num_trials
       THEN /\ i' = i + 1
            /\ pc' = "enter"
            /\ result' = NoResult
            /\ full_path' = <<>>
            /\ hop' = 0
            /\ fetchLog' = <<>>
            /\ agentCalls' = 0
            /\ randomCalls' = 0
            /\ validatorCalls' = 0
            /\ agentOutcome' = NotCalled
       ELSE /\ pc' = "done"
            /\ UNCHANGED <<i, result, full_path, hop, fetchLog, agentCalls,
                           randomCalls, validatorCalls, agentOutcome>>
    /\ UNCHANGED <<web, call, results, sleeps, raised, sres, sout, reportIn, report>>

NeedsRandomPage == call.start_page = NoneStr \/ call.start_url = NoneStr

\* run_single_evaluation with both start_page and start_url given
EnterGiven ==
    /\ pc = "enter"
    /\ ~NeedsRandomPage
    /\ result' = WikiBenchResult(call.start_page, call.start_url)
    /\ pc' = "solve"
    /\ UNCHANGED <<web, call, i, results, full_path, hop, fetchLog,
                   agentCalls, randomCalls, sleeps, raised, sres, sout,
                   validatorCalls, agentOutcome, reportIn, report>>

\* get_random_page() returns (title, final_url)
GetRandomPage(u) ==
    /\ pc = "enter"
    /\ NeedsRandomPage
    /\ randomCalls' = randomCalls + 1
    /\ result' = WikiBenchResult(TitleOfUrl(u), u)
    /\ pc' = "solve"
    /\ UNCHANGED <<web, call, i, results, full_path, hop, fetchLog,
                   agentCalls, sleeps, raised, sres, sout,
                   validatorCalls, agentOutcome, reportIn, report>>

\* get_random_page() raises: the call is outside the try block of
\* run_single_evaluation, and run_evaluation_suite has no handler.
RandomPageFails ==
    /\ pc = "enter"
    /\ NeedsRandomPage
    /\ randomCalls' = randomCalls + 1
    /\ raised' = "Failed to get random page"
    /\ pc' = "raised"
    /\ UNCHANGED <<web, call, i, results, result, full_path, hop, fetchLog,
                   agentCalls, sleeps, sres, sout,
                   validatorCalls, agentOutcome, reportIn, report>>

-----------------------------------------------------------------------------
(* run_single_evaluation: the try block *)

\* "Kevin Bacon", the literal of the cheating check
CHEAT_LITERAL == "Kevin Bacon"

\* Mutant: the literal of the cheating check is misspelt in lower case.
IsCheat_lower(path) == Len(path) = 1 /\ path[1] = "kevin bacon"

\* len(result.path) == 1 and result.path[0] == "Kevin Bacon"
IsCheat(path) == Len(path) = 1 /\ path[1] = CHEAT_LITERAL

\* Mutant: the target is compared without lower().
check_if_reached_target_exact(current_page) == current_page = "Kevin Bacon"

\* WikipediaNavigator.check_if_reached_target(current_page), target_page
\* left at its default
check_if_reached_target(current_page) == Lower(current_page) = Lower("Kevin Bacon")

\* Mutant: the validator is called in tool-use mode whatever the path, the
\* empty one included.
AgentReturn_validatesEmpty(ret, t) ==
    /\ pc = "solve"
    /\ agentCalls' = agentCalls + 1
    /\ agentOutcome' = Returned(ret)
    /\ LET path == IF ret.isNone \/ ret.value = <<>> THEN <<>> ELSE ret.value
       IN  /\ result' = [result EXCEPT
                            !.time_taken = t,
                            !.path = path,
                            !.cheated = IF IsCheat(path) THEN TRUE ELSE @,
                            !.gave_up = IF path = <<>> THEN TRUE ELSE @]
           /\ IF call.mode = TOOL_USE
              THEN /\ full_path' = <<result.start_page>> \o path
                   /\ validatorCalls' = validatorCalls + 1
                   /\ hop' = 0
                   /\ pc' = "validate"
              ELSE /\ pc' = "classify"
                   /\ UNCHANGED <<full_path, hop, validatorCalls>>
    /\ UNCHANGED <<web, call, i, results, fetchLog, randomCalls, sleeps,
                   raised, sres, sout, reportIn, report>>

\* Mutant: the validator is called for every non-empty path, whatever the mode.
AgentReturn_validatesAnyMode(ret, t) ==
    /\ pc = "solve"
    /\ agentCalls' = agentCalls + 1
    /\ agentOutcome' = Returned(ret)
    /\ LET path == IF ret.isNone \/ ret.value = <<>> THEN <<>> ELSE ret.value
       IN  /\ result' = [result EXCEPT
                            !.time_taken = t,
                            !.path = path,
                            !.cheated = IF IsCheat(path) THEN TRUE ELSE @,
                            !.gave_up = IF path = <<>> THEN TRUE ELSE @]
           /\ IF path # <<>>
              THEN /\ full_path' = <<result.start_page>> \o path
                   /\ validatorCalls' = validatorCalls + 1
                   /\ hop' = 0
                   /\ pc' = "validate"
              ELSE /\ pc' = "classify"
                   /\ UNCHANGED <<full_path, hop, validatorCalls>>
    /\ UNCHANGED <<web, call, i, results, fetchLog, randomCalls, sleeps,
                   raised, sres, sout, reportIn, report>>

\* Mutant: a cheating path is also marked gave up.
AgentReturn_cheatGivesUp(ret, t) ==
    /\ pc = "solve"
    /\ agentCalls' = agentCalls + 1
    /\ agentOutcome' = Returned(ret)
    /\ LET path == IF ret.isNone \/ ret.value = <<>> THEN <<>> ELSE ret.value
       IN  /\ result' = [result EXCEPT
                            !.time_taken = t,
                            !.path = path,
                            !.cheated = IF IsCheat(path) THEN TRUE ELSE @,
                            !.gave_up = IF path = <<>> \/ IsCheat(path)
                                        THEN TRUE ELSE @]
           /\ IF call.mode = TOOL_USE /\ path # <<>>
              THEN /\ full_path' = <<result.start_page>> \o path
                   /\ validatorCalls' = validatorCalls + 1
                   /\ hop' = 0
                   /\ pc' = "validate"
              ELSE /\ pc' = "classify"
                   /\ UNCHANGED <<full_path, hop, validatorCalls>>
    /\ UNCHANGED <<web, call, i, results, fetchLog, randomCalls, sleeps,
                   raised, sres, sout, reportIn, report>>

\* agent.solve_wikibench returns ret after t seconds: path, cheating check,
\* give-up check, and the decision to validate.
AgentReturn(ret, t) ==
    /\ pc = "solve"
    /\ agentCalls' = agentCalls + 1
    /\ agentOutcome' = Returned(ret)
    /\ LET path == IF ret.isNone \/ ret.value = <<>> THEN <<>> ELSE ret.value
       IN  /\ result' = [result EXCEPT
                            !.time_taken = t,
                            !.path = path,
                            !.cheated = IF IsCheat(path) THEN TRUE ELSE @,
                            !.gave_up = IF path = <<>> THEN TRUE ELSE @]
           /\ IF call.mode = TOOL_USE /\ path # <<>>
              THEN /\ full_path' = <<result.start_page>> \o path
                   /\ validatorCalls' = validatorCalls + 1
                   /\ hop' = 0
                   /\ pc' = "validate"
              ELSE /\ pc' = "classify"
                   /\ UNCHANGED <<full_path, hop, validatorCalls>>
    /\ UNCHANGED <<web, call, i, results, fetchLog, randomCalls, sleeps,
                   raised, sres, sout, reportIn, report>>

\* Mutant: the except block records the message and forgets gave_up.
AgentRaise_noflag(msg) ==
    /\ pc = "solve"
    /\ agentCalls' = agentCalls + 1
    /\ agentOutcome' = Raised(msg)
    /\ LET r1 == [result EXCEPT !.error_message = msg]
       IN  result' = [r1 EXCEPT !.score = calculate_score(r1)]
    /\ pc' = "return"
    /\ UNCHANGED <<web, call, i, results, full_path, hop, fetchLog,
                   randomCalls, validatorCalls, sleeps, raised, sres, sout, reportIn, report>>

\* Mutant: a failed solve_wikibench call is tried once more.
AgentRaise_retries(msg) ==
    /\ pc = "solve"
    /\ agentCalls' = agentCalls + 1
    /\ agentOutcome' = Raised(msg)
    /\ LET r1 == [result EXCEPT !.error_message = msg, !.gave_up = TRUE]
       IN  result' = IF agentCalls = 0 THEN result
                     ELSE [r1 EXCEPT !.score = calculate_score(r1)]
    /\ pc' = IF agentCalls = 0 THEN "solve" ELSE "return"
    /\ UNCHANGED <<web, call, i, results, full_path, hop, fetchLog,
                   randomCalls, validatorCalls, sleeps, raised, sres, sout, reportIn, report>>

\* Mutant: the except block scores the result before it marks it gave up.
AgentRaise_scoresFirst(msg) ==
    /\ pc = "solve"
    /\ agentCalls' = agentCalls + 1
    /\ agentOutcome' = Raised(msg)
    /\ result' = [result EXCEPT !.error_message = msg,
                                !.score = calculate_score(result),
                                !.gave_up = TRUE]
    /\ pc' = "return"
    /\ UNCHANGED <<web, call, i, results, full_path, hop, fetchLog,
                   randomCalls, validatorCalls, sleeps, raised, sres, sout, reportIn, report>>

\* agent.solve_wikibench raises Exception(msg): the except block
AgentRaise(msg) ==
    /\ pc = "solve"
    /\ agentCalls' = agentCalls + 1
    /\ agentOutcome' = Raised(msg)
    /\ LET r1 == [result EXCEPT !.error_message = msg, !.gave_up = TRUE]
       IN  result' = [r1 EXCEPT !.score = calculate_score(r1)]
    /\ pc' = "return"
    /\ UNCHANGED <<web, call, i, results, full_path, hop, fetchLog,
                   randomCalls, validatorCalls, sleeps, raised, sres, sout, reportIn, report>>

FetchError == [ok |-> FALSE, titles |-> {}]
FetchOk(titles) == [ok |-> TRUE, titles |-> titles]

\* Mutant: next_page is looked up among the link titles ignoring letter case.
ValidateHop_nocase ==
    /\ pc = "validate"
    /\ hop < Len(full_path) - 1
    /\ LET current_url == UrlOfTitle(full_path[hop + 1])
           next_page == full_path[hop + 2]
           link_titles == {l[1] : l \in get_page_links(current_url)}
       IN  /\ fetchLog' = Append(fetchLog, [url |-> current_url,
                                           answer |-> FetchOk(link_titles)])
           /\ IF Lower(next_page) \notin {Lower(t) : t \in link_titles}
              THEN /\ result' = [result EXCEPT !.invalid_path = TRUE]
                   /\ pc' = "classify"
                   /\ hop' = hop
              ELSE /\ hop' = hop + 1
                   /\ UNCHANGED <<result, pc>>
    /\ UNCHANGED <<web, call, i, results, full_path, agentCalls, randomCalls,
                   sleeps, raised, sres, sout,
                   validatorCalls, agentOutcome, reportIn, report>>

\* Mutant: a hop that does not match is remembered and the loop goes on to
\* the next page.
ValidateHop_continues ==
    /\ pc = "validate"
    /\ hop < Len(full_path) - 1
    /\ LET current_url == UrlOfTitle(full_path[hop + 1])
           next_page == full_path[hop + 2]
           link_titles == {l[1] : l \in get_page_links(current_url)}
       IN  /\ fetchLog' = Append(fetchLog, [url |-> current_url,
                                           answer |-> FetchOk(link_titles)])
           /\ hop' = hop + 1
           /\ IF next_page \notin link_titles
              THEN /\ result' = [result EXCEPT !.invalid_path = TRUE]
                   /\ pc' = IF hop + 1 < Len(full_path) - 1 THEN "validate"
                            ELSE "classify"
              ELSE UNCHANGED <<result, pc>>
    /\ UNCHANGED <<web, call, i, results, full_path, agentCalls, randomCalls,
                   sleeps, raised, sres, sout,
                   validatorCalls, agentOutcome, reportIn, report>>

\* is_valid_wikipedia_path, one iteration whose get_page_links succeeds:
\* False at once if next_page is not among the link titles.
ValidateHop ==
    /\ pc = "validate"
    /\ hop < Len(full_path) - 1
    /\ LET current_url == UrlOfTitle(full_path[hop + 1])
           next_page == full_path[hop + 2]
           link_titles == {l[1] : l \in get_page_links(current_url)}
       IN  /\ fetchLog' = Append(fetchLog, [url |-> current_url,
                                           answer |-> FetchOk(link_titles)])
           /\ IF next_page \notin link_titles
              THEN /\ result' = [result EXCEPT !.invalid_path = TRUE]
                   /\ pc' = "classify"
                   /\ hop' = hop
              ELSE /\ hop' = hop + 1
                   /\ UNCHANGED <<result, pc>>
    /\ UNCHANGED <<web, call, i, results, full_path, agentCalls, randomCalls,
                   sleeps, raised, sres, sout,
                   validatorCalls, agentOutcome, reportIn, report>>

\* Mutant: is_valid_wikipedia_path has no except clause, so the failure of
\* get_page_links reaches the except block of run_single_evaluation.
ValidateFetchFails_propagates ==
    /\ pc = "validate"
    /\ hop < Len(full_path) - 1
    /\ fetchLog' = Append(fetchLog, [url |-> UrlOfTitle(full_path[hop + 1]),
                                    answer |-> FetchError])
    /\ LET r1 == [result EXCEPT !.error_message = "Failed to get page links",
                                !.gave_up = TRUE]
       IN  result' = [r1 EXCEPT !.score = calculate_score(r1)]
    /\ pc' = "return"
    /\ UNCHANGED <<web, call, i, results, full_path, hop, agentCalls,
                   randomCalls, sleeps, raised, sres, sout,
                   validatorCalls, agentOutcome, reportIn, report>>

\* Mutant: a page whose fetch fails is skipped and the loop goes on.
ValidateFetchFails_skipsPage ==
    /\ pc = "validate"
    /\ hop < Len(full_path) - 1
    /\ fetchLog' = Append(fetchLog, [url |-> UrlOfTitle(full_path[hop + 1]),
                                    answer |-> FetchError])
    /\ hop' = hop + 1
    /\ UNCHANGED <<web, call, i, results, result, pc, full_path, agentCalls,
                   randomCalls, sleeps, raised, sres, sout,
                   validatorCalls, agentOutcome, reportIn, report>>

\* is_valid_wikipedia_path, one iteration whose get_page_links raises: the
\* except clause returns False.
ValidateFetchFails ==
    /\ pc = "validate"
    /\ hop < Len(full_path) - 1
    /\ fetchLog' = Append(fetchLog, [url |-> UrlOfTitle(full_path[hop + 1]),
                                    answer |-> FetchError])
    /\ result' = [result EXCEPT !.invalid_path = TRUE]
    /\ pc' = "classify"
    /\ UNCHANGED <<web, call, i, results, full_path, hop, agentCalls,
                   randomCalls, sleeps, raised, sres, sout,
                   validatorCalls, agentOutcome, reportIn, report>>

\* is_valid_wikipedia_path, after the last iteration: return True
\* (an empty path is rejected before the loop).
ValidateEnd ==
    /\ pc = "validate"
    /\ hop >= Len(full_path) - 1
    /\ result' = [result EXCEPT !.invalid_path = (full_path = <<>>)]
    /\ pc' = "classify"
    /\ UNCHANGED <<web, call, i, results, full_path, hop, fetchLog,
                   agentCalls, randomCalls, sleeps, raised, sres, sout,
                   validatorCalls, agentOutcome, reportIn, report>>

\* Mutant: the success check does not look at cheated.
Classify_ignoresCheated ==
    /\ pc = "classify"
    /\ LET r1 == IF result.path # <<>> /\ ~result.gave_up
                 THEN [result EXCEPT !.success =
                          check_if_reached_target(result.path[Len(result.path)])]
                 ELSE result
       IN  result' = [r1 EXCEPT !.score = calculate_score(r1)]
    /\ pc' = "return"
    /\ UNCHANGED <<web, call, i, results, full_path, hop, fetchLog,
                   agentCalls, randomCalls, sleeps, raised, sres, sout,
                   validatorCalls, agentOutcome, reportIn, report>>

\* the success check and the score
Classify ==
    /\ pc = "classify"
    /\ LET r1 == IF result.path # <<>> /\ ~result.gave_up /\ ~result.cheated
                 THEN [result EXCEPT !.success =
                          check_if_reached_target(result.path[Len(result.path)])]
                 ELSE result
       IN  result' = [r1 EXCEPT !.score = calculate_score(r1)]
    /\ pc' = "return"
    /\ UNCHANGED <<web, call, i, results, full_path, hop, fetchLog,
                   agentCalls, randomCalls, sleeps, raised, sres, sout,
                   validatorCalls, agentOutcome, reportIn, report>>

\* return result, to the caller of run_single_evaluation
ReturnSingle ==
    /\ pc = "return"
    /\ call.kind = "single"
    /\ pc' = "done"
    /\ UNCHANGED <<web, call, i, results, result, full_path, hop, fetchLog,
                   agentCalls, randomCalls, sleeps, raised, sres, sout,
                   validatorCalls, agentOutcome, reportIn, report>>

\* Mutant: the result is appended and the next trial starts without a delay.
SuiteAppend_noDelay ==
    /\ pc = "return"
    /\ call.kind = "suite"
    /\ results' = Append(results, result)
    /\ pc' = "loop"
    /\ UNCHANGED <<web, call, i, result, full_path, hop, fetchLog,
                   agentCalls, randomCalls, raised, sres, sout, sleeps,
                   validatorCalls, agentOutcome, reportIn, report>>

\* Mutant: one result object is reused by all trials, so every entry of the
\* list shows the latest trial.
SuiteAppend_sharedResult ==
    /\ pc = "return"
    /\ call.kind = "suite"
    /\ results' = [k \in 1..(Len(results) + 1) |-> result]
    /\ sleeps' = sleeps + 1
    /\ pc' = "loop"
    /\ UNCHANGED <<web, call, i, result, full_path, hop, fetchLog,
                   agentCalls, randomCalls, raised, sres, sout,
                   validatorCalls, agentOutcome, reportIn, report>>

\* return result, to run_evaluation_suite: results.append(result); time.sleep(1)
SuiteAppend ==
    /\ pc = "return"
    /\ call.kind = "suite"
    /\ results' = Append(results, result)
    /\ sleeps' = sleeps + 1
    /\ pc' = "loop"
    /\ UNCHANGED <<web, call, i, result, full_path, hop, fetchLog,
                   agentCalls, randomCalls, raised, sres, sout,
                   validatorCalls, agentOutcome, reportIn, report>>

\* evaluator.generate_report(results, agent_name) on the list a suite returned
SuiteReport(agent_name) ==
    /\ pc = "done"
    /\ call.kind = "suite"
    /\ report = NoReport
    /\ report' = generate_report(results, agent_name)
    /\ UNCHANGED <<web, pc, call, i, results, result, full_path, hop, fetchLog,
                   agentCalls, randomCalls, sleeps, raised, sres, sout,
                   validatorCalls, agentOutcome, reportIn>>

-----------------------------------------------------------------------------
(* run_evaluation.py: main *)

\* the three ways of selecting agents: --agent, --all-agents, --llm
AgentSelections == {"agent", "all_agents", "llm"}

\* --mode
ModeChoices == {NO_TOOL_USE, TOOL_USE, "both"}

TypeError == "TypeError: WikiBenchEvaluator.__init__() got an unexpected keyword argument"
SystemExit2 == "SystemExit: 2"

\* WikiBenchEvaluator(**kwargs): __init__(self) declares no parameter, so any
\* keyword argument raises TypeError before the body runs.
WikiBenchEvaluator_init(kwargs) ==
    IF kwargs = {} THEN NoError ELSE TypeError

\* main(), with the options given on the command line: parser.error exits
\* unless exactly one agent selection is given; then the evaluator is
\* constructed with target_page and target_url, which raises, and nothing in
\* main catches it: the agent and mode loops below are not reached.
main(selected, mode_choice, trials) ==
    /\ pc = "idle"
    /\ call' = [kind |-> "main", selected |-> selected,
                mode_choice |-> mode_choice, num_trials |-> trials]
    /\ raised' = IF Cardinality(selected) # 1 THEN SystemExit2
                 ELSE WikiBenchEvaluator_init({"target_page", "target_url"})
    /\ pc' = IF raised' = NoError THEN "done" ELSE "raised"
    /\ UNCHANGED <<web, i, results, result, full_path, hop, fetchLog,
                   agentCalls, randomCalls, sleeps, sres, sout,
                   validatorCalls, agentOutcome, reportIn, report>>

Next ==
    \/ \E selected \in SUBSET AgentSelections, mode_choice \in ModeChoices,
          trials \in 0..MaxTrials : main(selected, mode_choice, trials)
    \/ \E agent \in Agents, mode \in EvaluationMode,
          sp \in CallerStartPages, su \in CallerStartUrls :
          CallSingle(agent, mode, sp, su)
    \/ \E agent \in ExampleAgents, sp \in CallerStartPages, su \in CallerStartUrls :
          CallSingle(agent, TOOL_USE, sp, su)
    \/ \E mode \in EvaluationMode, n \in 0..MaxTrials : CallSuite(mode, n)
    \/ SuiteLoop
    \/ EnterGiven
    \/ \E u \in RandomUrls : GetRandomPage(u)
    \/ RandomPageFails
    \/ \E ret \in AgentReturns, t \in TimeValues : AgentReturn(ret, t)
    \/ \E msg \in AgentErrors : AgentRaise(msg)
    \/ ValidateHop
    \/ ValidateFetchFails
    \/ ValidateEnd
    \/ Classify
    \/ ReturnSingle
    \/ SuiteAppend
    \/ \E agent_name \in AgentNames : SuiteReport(agent_name)

Spec == Init /\ [][Next]_vars

-----------------------------------------------------------------------------
(* Properties of the scorer (SpecScorer) *)

Bit(b) == IF b THEN 1 ELSE 0

\* The documented formula, from the fields of r.
DocumentedScore(r) ==
    LET raw == Len(r.path) + 10 * Bit(r.invalid_path) + 15 * Bit(r.gave_up)
               + 20 * Bit(r.cheated) - r.creative_connections
    IN  IF raw < 0 THEN 0 ELSE raw

\* C1: every score calculate_score returns is max(0, len(path) + 10*[invalid_path]
\* + 15*[gave_up] + 20*[cheated] - creative_connections), and so never negative.
C1_ScoreIsClampedSum ==
    \A k \in DOMAIN sout : \A j \in DOMAIN sout[k] :
        /\ sout[k][j] = DocumentedScore(sres[k])
        /\ sout[k][j] >= 0

\* A result with every flag set whose creative_connections exceed the path
\* length plus all penalties has been scored, and got 0.
C1_Witness ==
    /\ sout # <<>>
    /\ Len(sout[1]) > 0
    /\ sres[1].invalid_path /\ sres[1].gave_up /\ sres[1].cheated
    /\ sres[1].creative_connections > Len(sres[1].path) + 10 + 15 + 20
    /\ sout[1][1] = 0

\* Scores returned for results with equal score tuples are equal, whichever call
\* returned them.
ScoresAgreeOnTuple ==
    \A a \in DOMAIN sout, b \in DOMAIN sout :
        ScoreTuple(sres[a]) = ScoreTuple(sres[b]) =>
            \A j \in DOMAIN sout[a], k \in DOMAIN sout[b] : sout[a][j] = sout[b][k]

\* C2: the scorer is pure: results with the same (len(path), invalid_path,
\* gave_up, cheated, creative_connections) get the same score whatever their
\* other fields, repeated calls on one result return the same score, and no call
\* changes a field of a result.
C2_ScorerPure == [](ScoresAgreeOnTuple) /\ [][sres' = sres]_vars

\* Two results that differ in start page, path content, time taken and error
\* message but not in the score tuple have both been scored twice.
C2_Witness ==
    /\ sout # <<>>
    /\ Len(sout[1]) = 2 /\ Len(sout[2]) = 2
    /\ ScoreTuple(sres[1]) = ScoreTuple(sres[2])
    /\ Len(sres[1].path) > 0
    /\ sres[1].path # sres[2].path
    /\ sres[1].start_page # sres[2].start_page
    /\ sres[1].time_taken # sres[2].time_taken
    /\ sres[1].error_message # sres[2].error_message

-----------------------------------------------------------------------------
(* Properties of one trial (Spec) *)

\* The trial's result is complete: run_single_evaluation is at its return
\* statement or has returned to the caller of a single evaluation.
TrialReturned ==
    \/ pc = "return"
    \/ pc = "done" /\ call.kind = "single"

\* The agent of the returned trial returned normally.
AgentReturnedNormally == TrialReturned /\ agentOutcome.kind = "return"

\* [start_page] + path of the returned trial
FullPathOf(r) == <<r.start_page>> \o r.path

\* C3: in both modes and for every start page, a trial whose agent returns
\* exactly ["Kevin Bacon"] ends with cheated = true and success = false.
C3_LiteralTargetIsCheat ==
    (AgentReturnedNormally /\ ~agentOutcome.isNone
        /\ agentOutcome.value = <<"Kevin Bacon">>)
    => (result.cheated /\ ~result.success)

C3_Witness ==
    /\ AgentReturnedNormally
    /\ agentOutcome.value = <<"Kevin Bacon">>
    /\ call.mode = TOOL_USE
    /\ result.start_page = "Woodworking"
    /\ result.cheated /\ ~result.success

\* C4: in both modes, a trial whose agent returns an empty path or None ends
\* with gave_up = true, success = cheated = invalid_path = false and score 15,
\* and is_valid_wikipedia_path is not called.
C4_EmptyPathGivesUp ==
    (AgentReturnedNormally /\ (agentOutcome.isNone \/ agentOutcome.value = <<>>))
    => /\ result.gave_up
       /\ ~result.success /\ ~result.cheated /\ ~result.invalid_path
       /\ result.score = 15
       /\ result.path = <<>>
       /\ validatorCalls = 0
       /\ fetchLog = <<>>

C4_Witness ==
    /\ AgentReturnedNormally
    /\ agentOutcome.isNone
    /\ call.mode = TOOL_USE
    /\ result.gave_up /\ result.score = 15

\* No link fetch of the trial has failed.
NoFetchFailed == \A k \in DOMAIN fetchLog : fetchLog[k].answer.ok

\* Every hop of the sequence p is a link of the site: the page of p[k] has a
\* link whose title is exactly p[k+1].
EveryHopLinked(p) ==
    \A k \in 1..(Len(p) - 1) :
        p[k + 1] \in {l[1] : l \in get_page_links(UrlOfTitle(p[k]))}

\* C5: in tool-use mode, for every non-empty path, invalid_path is false exactly
\* when every hop of [start_page] + path was answered by the link source with
\* links that hold the next title, letter for letter.
C5_InvalidIffSomeHopUnlinked ==
    (AgentReturnedNormally /\ call.mode = TOOL_USE /\ result.path # <<>>)
    => (result.invalid_path = ~(NoFetchFailed /\ EveryHopLinked(FullPathOf(result))))

\* No fetch failed and the path is rejected because its last title differs from
\* the linked title in letter case only.
C5_Witness ==
    /\ AgentReturnedNormally
    /\ call.mode = TOOL_USE
    /\ NoFetchFailed
    /\ web = WebChain
    /\ result.start_page = "bradawl"
    /\ result.path = <<"Woodworking", "Hand tool", "kevin bacon">>
    /\ result.invalid_path

\* C6: in tool-use mode, a path of n >= 2 titles whose hops are all confirmed
\* and whose last title is the target up to letter case ends with success,
\* no other flag, and score n.
C6_ValidatedPathSucceeds ==
    (/\ AgentReturnedNormally
     /\ call.mode = TOOL_USE
     /\ Len(result.path) >= 2
     /\ NoFetchFailed
     /\ EveryHopLinked(FullPathOf(result))
     /\ Lower(result.path[Len(result.path)]) = "kevin bacon")
    => /\ result.success
       /\ ~result.invalid_path /\ ~result.gave_up /\ ~result.cheated
       /\ result.score = Len(result.path)

\* The bradawl scenario: three confirmed hops, score 3.
C6_Witness ==
    /\ AgentReturnedNormally
    /\ call.mode = TOOL_USE
    /\ result.start_page = "bradawl"
    /\ result.path = <<"Woodworking", "Hand tool", "Kevin Bacon">>
    /\ NoFetchFailed
    /\ result.success /\ result.score = 3

\* C7: a trial whose agent returns exactly ["Kevin Bacon"] ends with
\* cheated = true and score 21, in either mode and whatever the links of the
\* start page.
C7_CheatScores21 ==
    (AgentReturnedNormally /\ ~agentOutcome.isNone
        /\ agentOutcome.value = <<"Kevin Bacon">>)
    => (result.cheated /\ result.score = 21)

\* C8: when solve_wikibench raises, run_single_evaluation returns a result with
\* gave_up = true, the exception's message, an empty path, no other flag and
\* score 15; nothing is raised to the caller and the agent was called once.
C8_AgentErrorIsGiveUp ==
    agentOutcome.kind = "raise"
    => /\ pc \in {"return", "loop", "done"}
       /\ raised = NoError
       /\ result.gave_up
       /\ result.error_message = agentOutcome.msg
       /\ result.error_message # NoneStr
       /\ result.path = <<>>
       /\ ~result.success /\ ~result.cheated /\ ~result.invalid_path
       /\ result.score = 15
       /\ agentCalls = 1

C8_Witness ==
    /\ agentOutcome.kind = "raise"
    /\ TrialReturned
    /\ call.mode = TOOL_USE
    /\ result.error_message = "Tool use mode not implemented for OpenAI agent"
    /\ result.score = 15

-----------------------------------------------------------------------------
(* Properties of the suite (Spec) *)

\* C9: run_evaluation_suite with num_trials = N returns (no exception leaves it)
\* and what it returns has exactly N entries.
C9_SuiteReturnsNResults ==
    call.kind = "suite"
    => /\ pc # "raised"
       /\ pc = "done" => Len(results) = call.num_trials

\* Some link fetch of the current trial's validation failed.
SomeFetchFailed == \E k \in DOMAIN fetchLog : ~fetchLog[k].answer.ok

\* C10: in a suite, a failure inside a trial (the agent raising, a link fetch
\* failing, the random-page fetch failing) never leaves run_evaluation_suite:
\* it is recorded in the trial's result and the loop goes on.
C10_TrialFailuresContained ==
    call.kind = "suite"
    => /\ raised = NoError
       /\ pc # "raised"
       /\ (pc = "return" /\ agentOutcome.kind = "raise")
             => (result.gave_up /\ result.error_message # NoneStr)
       /\ (pc = "return" /\ SomeFetchFailed) => result.invalid_path

-----------------------------------------------------------------------------
(* Properties of generate_report (SpecReport) *)

\* The parts of a report that are counts, extremes and entries of the results.
ReportAggregates(rep, rs) ==
    /\ rep.total_trials = Len(rs)
    /\ rep.successful_trials = Cardinality({k \in DOMAIN rs : rs[k].success})
    /\ rep.gave_up_count = Cardinality({k \in DOMAIN rs : rs[k].gave_up})
    /\ rep.cheated_count = Cardinality({k \in DOMAIN rs : rs[k].cheated})
    /\ rep.invalid_path_count = Cardinality({k \in DOMAIN rs : rs[k].invalid_path})
    /\ \A k \in DOMAIN rs : rep.best_score <= rs[k].score /\ rs[k].score <= rep.worst_score
    /\ \E k \in DOMAIN rs : rep.best_score = rs[k].score
    /\ \E k \in DOMAIN rs : rep.worst_score = rs[k].score
    /\ rep.best_score <= rep.worst_score
    /\ (\A k \in DOMAIN rs : rs[k].path = <<>>)
          => (rep.average_path_length.num = 0 /\ rep.average_path_length.exact)
    /\ Len(rep.results) = Len(rs)
    /\ \A k \in DOMAIN rs :
          /\ rep.results[k].start_page = rs[k].start_page
          /\ rep.results[k].path = rs[k].path
          /\ rep.results[k].score = rs[k].score
          /\ rep.results[k].success = rs[k].success
          /\ rep.results[k].gave_up = rs[k].gave_up
          /\ rep.results[k].cheated = rs[k].cheated
          /\ rep.results[k].invalid_path = rs[k].invalid_path
          /\ rep.results[k].time_taken = rs[k].time_taken
          /\ rep.results[k].error_message = rs[k].error_message

\* C14 as claimed: for a non-empty result sequence the report is a pure
\* aggregation of it, and success_rate * total_trials = successful_trials * 100.
C14_ReportIsAggregation ==
    report.kind = "report"
    => /\ reportIn # <<>>
       /\ ReportAggregates(report, reportIn)
       /\ FloatTimesEquals(report.success_rate, report.total_trials,
                           report.successful_trials * 100)

\* C14 as amended: for a non-empty result sequence the report is a pure
\* aggregation of it, and success_rate is the double that the float
\* computation successful_trials / total_trials * 100 yields: it approximates
\* the quotient 100 * successful_trials / total_trials, and is exactly 0 when no
\* trial succeeded and exactly 100 when all did.
C14_ReportIsAggregationRounded ==
    report.kind = "report"
    => /\ reportIn # <<>>
       /\ ReportAggregates(report, reportIn)
       /\ report.success_rate.num * report.total_trials
             = report.successful_trials * 100 * report.success_rate.den
       /\ report.successful_trials \in {0, report.total_trials}
             => report.success_rate.exact

\* A report of three results, one of them successful and one without a path,
\* with different best and worst scores.
C14_Witness ==
    /\ report.kind = "report"
    /\ report.total_trials = 3
    /\ report.successful_trials = 1
    /\ report.gave_up_count = 1
    /\ report.best_score < report.worst_score
    /\ ~report.success_rate.exact

\* C15: generate_report applied to an empty result sequence raises nothing and
\* returns the empty report.
C15_EmptyResultsEmptyReport ==
    (reportIn = <<>> /\ report # NoReport) => report = EmptyReport

C15_Witness ==
    /\ reportIn = <<>>
    /\ report = EmptyReport

-----------------------------------------------------------------------------
(* Further properties of one trial (Spec) *)

\* C11: for every trial whose agent returns normally, in either mode, success
\* is true exactly when the path is non-empty, gave_up and cheated are false and
\* the last path element equals the target page title ignoring letter case.
C11_SuccessIffReachedTarget ==
    AgentReturnedNormally
    => (result.success <=>
           /\ result.path # <<>>
           /\ ~result.gave_up
           /\ ~result.cheated
           /\ Lower(result.path[Len(result.path)]) = Lower(result.target_page))

\* A conceptual path that ends at the target in another letter case succeeds.
C11_Witness ==
    /\ AgentReturnedNormally
    /\ call.mode = NO_TOOL_USE
    /\ result.path = <<"Woodworking", "kevin bacon">>
    /\ result.success

\* C12: is_valid_wikipedia_path never raises: once a link fetch of the
\* validation has failed, nothing is raised, invalid_path is (or is about to be
\* scored as) true, and neither error_message nor gave_up is set.
C12_FetchFailureIsInvalidPath ==
    SomeFetchFailed
    => /\ raised = NoError
       /\ pc # "raised"
       /\ result.invalid_path
       /\ result.error_message = NoneStr
       /\ ~result.gave_up

\* The second hop's fetch failed and the trial returned with invalid_path.
C12_Witness ==
    /\ TrialReturned
    /\ Len(fetchLog) = 2
    /\ fetchLog[1].answer.ok
    /\ ~fetchLog[2].answer.ok
    /\ result.invalid_path
    /\ result.score = Len(result.path) + 10

\* Hop k of the validated sequence matched: its fetch succeeded and the links
\* hold the next title.
HopMatched(k) ==
    /\ fetchLog[k].answer.ok
    /\ full_path[k + 1] \in fetchLog[k].answer.titles

\* C13: the validator fetches the pages of [start_page] + path in order, one
\* fetch per hop, and makes no fetch after the first hop that does not match or
\* whose fetch fails: every logged fetch but the last one matched.
C13_ValidatorStopsAtFirstFailure ==
    /\ Len(fetchLog) <= Max(0, Len(full_path) - 1)
    /\ \A k \in DOMAIN fetchLog :
          /\ fetchLog[k].url = UrlOfTitle(full_path[k])
          /\ k < Len(fetchLog) => HopMatched(k)

\* A path of three titles was rejected at its first hop after one fetch.
C13_Witness ==
    /\ TrialReturned
    /\ Len(full_path) = 4
    /\ Len(fetchLog) = 1
    /\ fetchLog[1].answer.ok
    /\ ~HopMatched(1)
    /\ result.invalid_path

\* C17: solve_wikibench is called once per trial: at most once at any moment,
\* and exactly once when the trial's result is returned, whether the call
\* raised, returned an empty path or returned a cheating or invalid path.
C17_AgentCalledOnce ==
    /\ agentCalls <= 1
    /\ TrialReturned => agentCalls = 1

\* A trial whose agent raised has returned.
C17_Witness ==
    /\ TrialReturned
    /\ agentOutcome.kind = "raise"
    /\ agentCalls = 1

\* C20: the score of every result run_single_evaluation returns is the scorer's
\* value for the result's final fields, on the normal and the exception path.
C20_ScoreIsScorerOfFinalFields ==
    /\ TrialReturned => result.score = calculate_score(result)
    /\ \A k \in DOMAIN results : results[k].score = calculate_score(results[k])

\* A suite holds the result of a trial whose agent raised, scored 15.
C20_Witness ==
    /\ Len(results) = 2
    /\ results[1].error_message # NoneStr
    /\ results[1].score = 15
    /\ results[2].invalid_path
    /\ results[2].score = Len(results[2].path) + 10

\* C16: in a call of run_single_evaluation a random page is obtained exactly
\* when the caller gave no start_page: with a start_page given, get_random_page
\* is never called and the result's start_page is the given one; with none
\* given, the returned trial has called it.
C16_RandomPageIffNoStartPage ==
    call.kind = "single" /\ pc # "idle"
    => /\ call.start_page # NoneStr
          => /\ randomCalls = 0
             /\ TrialReturned => result.start_page = call.start_page
       /\ call.start_page = NoneStr /\ TrialReturned => randomCalls = 1

\* C18: a command-line run with exactly one agent selection, any mode choice
\* and any trial count ends without an error leaving the process.
C18_CliRunCompletes ==
    call.kind = "main" /\ Cardinality(call.selected) = 1
    => raised = NoError /\ pc # "raised"

\* C19: a single evaluation of LLMChatAgent in tool_use mode whose agent call
\* has returned got the empty path, whatever the model's response, and the
\* trial is classified gave up.
C19_LLMChatAgentGivesUpInToolUse ==
    /\ call.kind = "single"
    /\ call.agent = LLM_CHAT_AGENT
    /\ call.mode = TOOL_USE
    /\ AgentReturnedNormally
    => /\ agentOutcome.value = <<>>
       /\ result.gave_up

-----------------------------------------------------------------------------
(* The combinations of flags the evaluator produces (Spec) *)

\* The flags of r are one of the documented combinations.
DocumentedCombination(r) ==
    /\ Bit(r.success) + Bit(r.gave_up) + Bit(r.cheated) <= 1
    /\ r.gave_up <=> r.path = <<>>
    /\ r.path \in Seq(Titles)
    /\ ~(r.gave_up /\ r.invalid_path)

\* C21: every result the evaluator returns, from a single evaluation or in a
\* suite's list, has at most one of success, gave_up and cheated, has gave_up
\* exactly when its path is empty, has a sequence as path (the agent's None
\* included) and never has gave_up together with invalid_path.
C21_DocumentedCombinations ==
    /\ TrialReturned => DocumentedCombination(result)
    /\ \A k \in DOMAIN results : DocumentedCombination(results[k])

\* The agent returned None and the result's path is the empty sequence.
C21_Witness ==
    /\ TrialReturned
    /\ agentOutcome.kind = "return"
    /\ agentOutcome.isNone
    /\ result.path = <<>>
    /\ result.gave_up

\* C22: a returned trial whose path matched the cheat pattern has success and
\* invalid_path false, and the evaluator ran no validator and fetched no links
\* for it, in either mode.
C22_CheatSkipsValidation ==
    TrialReturned /\ result.cheated
    => /\ ~result.success
       /\ ~result.invalid_path
       /\ validatorCalls = 0
       /\ fetchLog = <<>>

\* C23: no returned result has success together with invalid_path.
C23_SuccessExcludesInvalidPath ==
    /\ TrialReturned => ~(result.success /\ result.invalid_path)
    /\ \A k \in DOMAIN results : ~(results[k].success /\ results[k].invalid_path)

\* A trial is in progress or has returned.
InTrial == call.kind \in {"single", "suite"} /\ result # NoResult

\* C24: in no_tool_use mode the validator is never run, no links are fetched
\* and invalid_path stays false whatever the agent returns; in tool_use mode
\* the validator is run only for a non-empty path.
C24_ValidatorOnlyInToolUse ==
    InTrial
    => /\ call.mode = NO_TOOL_USE
          => /\ validatorCalls = 0
             /\ fetchLog = <<>>
             /\ ~result.invalid_path
             /\ \A k \in DOMAIN results : ~results[k].invalid_path
       /\ validatorCalls > 0 => call.mode = TOOL_USE /\ result.path # <<>>

\* A conceptual trial returned a path of hops the web does not have, unflagged.
C24_Witness ==
    /\ TrialReturned
    /\ call.mode = NO_TOOL_USE
    /\ web = WebChain
    /\ result.path = <<"Hand tool", "Woodworking", "Kevin Bacon">>
    /\ ~result.invalid_path
    /\ validatorCalls = 0

\* C27: a returned trial whose path is one element naming the target page in
\* any letter case is not a success.
C27_DirectJumpNeverSucceeds ==
    /\ TrialReturned
    /\ Len(result.path) = 1
    /\ Lower(result.path[1]) = Lower(result.target_page)
    => ~result.success

-----------------------------------------------------------------------------
(* validate_path.py: the standalone diagnostic *)

\* One step of validate_wikibench_path: the fetch of the current page
\* succeeds and some link title equals next_page ignoring letter case.
StepFound(full, k, source) ==
    LET answer == source[UrlOfTitle(full[k])]
    IN  /\ answer.ok
        /\ \E title \in answer.titles : Lower(title) = Lower(full[k + 1])

\* validate_wikibench_path(start_page, path) over a link source that answers
\* the fetch of url with source[url]: every step is checked, the failing ones
\* are listed in errors.
validate_wikibench_path(start_page, path, source) ==
    LET full == <<start_page>> \o path
        steps == [k \in 1..(Len(full) - 1) |-> k]
        errors == SelectSeq(steps, LAMBDA k : ~StepFound(full, k, source))
    IN  [valid |-> errors = <<>>, errors |-> errors]

\* The link source as the trial's validation saw it: the answer logged for
\* each page fetched.
LoggedSource ==
    [u \in {fetchLog[k].url : k \in DOMAIN fetchLog} |->
        fetchLog[CHOOSE k \in DOMAIN fetchLog : fetchLog[k].url = u].answer]

\* Every fetch of a page was answered the same way.
SourceIsStable ==
    \A j, k \in DOMAIN fetchLog :
        fetchLog[j].url = fetchLog[k].url => fetchLog[j].answer = fetchLog[k].answer

\* The core validator ran on the returned trial and accepted [start_page] + path.
CoreAccepted ==
    /\ TrialReturned
    /\ validatorCalls = 1
    /\ ~result.invalid_path

\* C28: whenever the core validator accepts [start_page] + path and the link
\* source answers every fetch of a page the same way, the diagnostic
\* validate_wikibench_path(start_page, path) over that source reports valid
\* with no errors.
C28_CoreAcceptedIsDiagnosticValid ==
    CoreAccepted /\ SourceIsStable
    => LET d == validate_wikibench_path(result.start_page, result.path, LoggedSource)
       IN  d.valid /\ d.errors = <<>>

\* The core accepted a path of three hops, one page of which links to itself.
C28_Witness ==
    /\ CoreAccepted
    /\ SourceIsStable
    /\ Len(result.path) = 3
    /\ validate_wikibench_path(result.start_page, result.path, LoggedSource).valid

-----------------------------------------------------------------------------
(* Order and ownership in a suite (Spec) *)

\* Positions of run_single_evaluation, from its entry to its return
TrialPositions == {"enter", "solve", "validate", "classify", "return"}

\* C25: in a suite the trials run one at a time in index order: while trial i
\* runs (its random page, its agent call, its validation) or is cut short by an
\* exception, the results of trials 1..i-1 have been appended and i-1 pacing
\* delays have elapsed; between trials and at the end, i results and i delays.
C25_TrialsSequentialAndPaced ==
    call.kind = "suite"
    => /\ pc \in TrialPositions \cup {"raised"}
          => /\ i >= 1
             /\ Len(results) = i - 1
             /\ sleeps = i - 1
       /\ pc \in {"loop", "done"} => Len(results) = i /\ sleeps = i

\* The agent of the second trial is about to be called, after one delay.
C25_Witness ==
    /\ call.kind = "suite"
    /\ i = 2
    /\ pc = "solve"
    /\ randomCalls = 1
    /\ agentCalls = 0
    /\ Len(results) = 1
    /\ sleeps = 1

-----------------------------------------------------------------------------
(* The browsing agents against the validator (Spec) *)

\* C29: in tool_use mode, when no fetch fails, the path RandomAgent,
\* GreedyActorAgent or HeuristicAgent built by following the links from
\* start_url is accepted by the validator: the returned trial has
\* invalid_path false, the hop to the target the agent appended included.
C29_BrowsedPathIsValid ==
    /\ TrialReturned
    /\ call.kind = "single"
    /\ call.agent \in ExampleAgents
    /\ NoFetchFailed
    => ~result.invalid_path

====
